---- MODULE Spec2Model ----
(***************************************************************************)
(* The hydrology notebook, its cells run top to bottom: the calls to the   *)
(* engine and to the displays with the maps they read and write, and in    *)
(* detail the zonal-statistics cells (the r.univar call, the               *)
(* csv.DictReader/defaultdict aggregation loop, the selection and numeric  *)
(* conversion of the 'zone', 'mean' and 'stddev' columns and the bar       *)
(* plot); and the GrassRenderer cells of the grass.jupyter notebook.       *)
(*                                                                         *)
(* A Python string is a sequence of symbols.  The separator, the quote     *)
(* character and the line break are symbols of their own; any other symbol *)
(* ("zone", "mean", "stddev", "1") stands for itself as a run of ordinary  *)
(* characters, all of which csv's parser treats alike.                     *)
(***************************************************************************)
EXTENDS Integers, Sequences, FiniteSets, TLC

VARIABLES pc, session, rasters, vectors, univar_args, printed, text, reader, columns,
          watersheds, means, stddevs, plot, err,
          layers, displayed, added, last

vars == <<pc, session, rasters, vectors, univar_args, printed, text, reader, columns,
          watersheds, means, stddevs, plot, err,
          layers, displayed, added, last>>

aggVars == <<pc, session, rasters, vectors, univar_args, printed, text, reader, columns,
             watersheds, means, stddevs, plot, err>>

renderVars == <<layers, displayed, added, last>>

-----------------------------------------------------------------------------
(* Bounds of the model. *)

\* data lines in r.univar's table
MaxRows == 2

\* fields in a line of r.univar's table
MaxFields == 2

\* layers added to one GrassRenderer instance
MaxLayers == 2

-----------------------------------------------------------------------------
(* Symbols and values. *)

separator == "|"

QUOTE == "\""

NL == "\n"

\* the end-of-line marker csv's reader feeds its parser after each line
EOL == "\\0"

\* Python's None: a one-symbol value whose symbol no string contains
None == <<"None">>

\* a name no statement has assigned yet
Unbound == <<"<unbound>">>

Min(a, b) == IF a < b THEN a ELSE b

Range(s) == {s[i] : i \in 1..Len(s)}

SeqsUpTo(S, lo, hi) == UNION {[1..k -> S] : k \in lo..hi}

RECURSIVE Join(_, _)
\* sep.join(parts)
Join(parts, sep) ==
    IF parts = <<>> THEN <<>>
    ELSE IF Len(parts) = 1 THEN parts[1]
    ELSE parts[1] \o <<sep>> \o Join(Tail(parts), sep)

RECURSIVE Unlines(_)
\* the table as r.univar prints it: every line ended by a line break
Unlines(ls) ==
    IF ls = <<>> THEN <<>> ELSE ls[1] \o <<NL>> \o Unlines(Tail(ls))

\* a Python list of strings as a value (the rest of a long row)
ListVal(parts) ==
    <<"[">> \o Join([i \in 1..Len(parts) |-> <<"'">> \o parts[i] \o <<"'">>], ",")
            \o <<"]">>

-----------------------------------------------------------------------------
(* str.splitlines *)

RECURSIVE SplitLinesFrom(_, _, _)
SplitLinesFrom(s, i, cur) ==
    IF i > Len(s) THEN (IF cur = <<>> THEN <<>> ELSE <<cur>>)
    ELSE IF s[i] = NL THEN <<cur>> \o SplitLinesFrom(s, i + 1, <<>>)
    ELSE SplitLinesFrom(s, i + 1, Append(cur, s[i]))

SplitLines(s) == SplitLinesFrom(s, 1, <<>>)

-----------------------------------------------------------------------------
(* csv.reader with the 'excel' dialect and delimiter=separator: quotechar  *)
(* '"', doublequote, no escapechar, no skipinitialspace, not strict.       *)

ParseReset == [state |-> "START_RECORD", field |-> <<>>, fields |-> <<>>]

SaveField(p) == [p EXCEPT !.fields = Append(p.fields, p.field), !.field = <<>>]

AddChar(p, c) == [p EXCEPT !.field = Append(p.field, c)]

StartField(p, c) ==
    IF c = EOL THEN [SaveField(p) EXCEPT !.state = "START_RECORD"]
    ELSE IF c = QUOTE THEN [p EXCEPT !.state = "IN_QUOTED_FIELD"]
    ELSE IF c = separator THEN [SaveField(p) EXCEPT !.state = "START_FIELD"]
    ELSE [AddChar(p, c) EXCEPT !.state = "IN_FIELD"]

\* ProcessChar, with a quote character inside an unquoted field dropped
ProcessCharStripQuote(p, c) ==
    CASE p.state = "START_RECORD" ->
            IF c = EOL THEN p ELSE StartField(p, c)
      [] p.state = "START_FIELD" -> StartField(p, c)
      [] p.state = "IN_FIELD" ->
            IF c = EOL THEN [SaveField(p) EXCEPT !.state = "START_RECORD"]
            ELSE IF c = separator THEN [SaveField(p) EXCEPT !.state = "START_FIELD"]
            ELSE IF c = QUOTE THEN p
            ELSE AddChar(p, c)
      [] p.state = "IN_QUOTED_FIELD" ->
            IF c = EOL THEN p
            ELSE IF c = QUOTE THEN [p EXCEPT !.state = "QUOTE_IN_QUOTED_FIELD"]
            ELSE AddChar(p, c)
      [] p.state = "QUOTE_IN_QUOTED_FIELD" ->
            IF c = QUOTE THEN [AddChar(p, c) EXCEPT !.state = "IN_QUOTED_FIELD"]
            ELSE IF c = separator THEN [SaveField(p) EXCEPT !.state = "START_FIELD"]
            ELSE IF c = EOL THEN [SaveField(p) EXCEPT !.state = "START_RECORD"]
            ELSE [AddChar(p, c) EXCEPT !.state = "IN_FIELD"]

ProcessChar(p, c) ==
    CASE p.state = "START_RECORD" ->
            IF c = EOL THEN p ELSE StartField(p, c)
      [] p.state = "START_FIELD" -> StartField(p, c)
      [] p.state = "IN_FIELD" ->
            IF c = EOL THEN [SaveField(p) EXCEPT !.state = "START_RECORD"]
            ELSE IF c = separator THEN [SaveField(p) EXCEPT !.state = "START_FIELD"]
            ELSE AddChar(p, c)
      [] p.state = "IN_QUOTED_FIELD" ->
            IF c = EOL THEN p
            ELSE IF c = QUOTE THEN [p EXCEPT !.state = "QUOTE_IN_QUOTED_FIELD"]
            ELSE AddChar(p, c)
      [] p.state = "QUOTE_IN_QUOTED_FIELD" ->
            IF c = QUOTE THEN [AddChar(p, c) EXCEPT !.state = "IN_QUOTED_FIELD"]
            ELSE IF c = separator THEN [SaveField(p) EXCEPT !.state = "START_FIELD"]
            ELSE IF c = EOL THEN [SaveField(p) EXCEPT !.state = "START_RECORD"]
            ELSE [AddChar(p, c) EXCEPT !.state = "IN_FIELD"]

RECURSIVE ProcessLine(_, _, _)
ProcessLine(p, line, i) ==
    IF i > Len(line) THEN ProcessChar(p, EOL)
    ELSE ProcessLine(ProcessChar(p, line[i]), line, i + 1)

RECURSIVE ReaderLoop(_, _, _)
\* the do/while of the reader's __next__: lines are taken until a record ends
ReaderLoop(p, lines, pos) ==
    IF pos > Len(lines)
    THEN IF p.field # <<>> \/ p.state = "IN_QUOTED_FIELD"
         THEN [stop |-> FALSE, row |-> SaveField(p).fields, pos |-> pos]
         ELSE [stop |-> TRUE, row |-> <<>>, pos |-> pos]
    ELSE LET q == ProcessLine(p, lines[pos], 1)
         IN  IF q.state # "START_RECORD"
             THEN ReaderLoop(q, lines, pos + 1)
             ELSE [stop |-> FALSE, row |-> q.fields, pos |-> pos + 1]

\* next(reader) at line index pos: the record, or StopIteration
ReaderNext(lines, pos) == ReaderLoop(ParseReset, lines, pos)

-----------------------------------------------------------------------------
(* csv.DictReader, restkey=None, restval=None *)

\* Fieldnames, with the header line left in the stream as a data line
FieldnamesKeepHeader(r) ==
    IF r.fieldnames # <<>> THEN r
    ELSE LET n == ReaderNext(r.lines, r.pos)
         IN  IF n.stop THEN [r EXCEPT !.pos = n.pos]
             ELSE [r EXCEPT !.fieldnames = <<n.row>>, !.line_num = n.pos - 1]

\* DictReader.fieldnames: the first record the reader yields, once
\* (r.fieldnames is <<>> for None and <<names>> once set)
Fieldnames(r) ==
    IF r.fieldnames # <<>> THEN r
    ELSE LET n == ReaderNext(r.lines, r.pos)
         IN  IF n.stop THEN [r EXCEPT !.pos = n.pos]
             ELSE [r EXCEPT !.fieldnames = <<n.row>>, !.pos = n.pos,
                            !.line_num = n.pos - 1]

RECURSIVE SkipBlank(_, _)
\* while row == []: row = next(self.reader)
SkipBlank(lines, pos) ==
    LET n == ReaderNext(lines, pos)
    IN  IF n.stop \/ n.row # <<>> THEN n ELSE SkipBlank(lines, n.pos)

RECURSIVE SubSeqFrom(_, _)
SubSeqFrom(s, i) == IF i > Len(s) THEN <<>> ELSE <<s[i]>> \o SubSeqFrom(s, i + 1)

\* LastPos, with the first position kept instead of the last
FirstPos(names, k, n) ==
    CHOOSE i \in 1..n : names[i] = k /\ \A j \in 1..(i - 1) : names[j] # k

\* the last position i <= n with names[i] = k (dict(zip(...)) keeps the last)
LastPos(names, k, n) ==
    CHOOSE i \in 1..n : names[i] = k /\ \A j \in (i + 1)..n : names[j] # k

\* d = dict(zip(fieldnames, row)), then the restkey / restval branches
RowDict(fieldnames, row) ==
    LET lf == Len(fieldnames)
        lr == Len(row)
        n  == Min(lf, lr)
        zipped  == {fieldnames[i] : i \in 1..n}
        padded  == IF lf > lr THEN {fieldnames[i] : i \in (lr + 1)..lf} ELSE {}
        restkey == IF lf < lr THEN {None} ELSE {}
    IN  [k \in zipped \cup padded \cup restkey |->
            IF k \in restkey THEN ListVal(SubSeqFrom(row, lf + 1))
            ELSE IF k \in padded THEN None
            ELSE row[LastPos(fieldnames, k, n)]]

\* DictReader.__next__: the fieldnames are read on the first call, line_num is
\* taken after the first next(self.reader), blank rows are then skipped
DictNext(r) ==
    LET r1    == IF r.line_num = 0 THEN Fieldnames(r) ELSE r
        first == ReaderNext(r1.lines, r1.pos)
        n     == SkipBlank(r1.lines, r1.pos)
        r2    == [r1 EXCEPT !.pos = n.pos,
                            !.line_num = IF first.stop THEN @ ELSE first.pos - 1]
    IN  IF n.stop
        THEN [stop |-> TRUE, d |-> <<>>, reader |-> r2]
        ELSE [stop |-> FALSE, d |-> RowDict(r1.fieldnames[1], n.row), reader |-> r2]

-----------------------------------------------------------------------------
(* defaultdict(list) *)

\* AppendRow, with columns[k] = [v] in place of columns[k].append(v)
AssignRow(cols, d) ==
    [k \in DOMAIN cols \cup DOMAIN d |->
        IF k \in DOMAIN d THEN <<d[k]>> ELSE cols[k]]

\* AppendRow, with columns[k].insert(0, v) in place of columns[k].append(v)
PrependRow(cols, d) ==
    [k \in DOMAIN cols \cup DOMAIN d |->
        IF k \in DOMAIN d
        THEN <<d[k]>> \o (IF k \in DOMAIN cols THEN cols[k] ELSE <<>>)
        ELSE cols[k]]

\* for (k,v) in row.items(): columns[k].append(v)
AppendRow(cols, d) ==
    [k \in DOMAIN cols \cup DOMAIN d |->
        IF k \in DOMAIN d
        THEN Append(IF k \in DOMAIN cols THEN cols[k] ELSE <<>>, d[k])
        ELSE cols[k]]

\* columns[k] as an expression: a missing key is inserted with an empty list
GetItem(cols, k) ==
    [j \in DOMAIN cols \cup {k} |-> IF j \in DOMAIN cols THEN cols[j] ELSE <<>>]

-----------------------------------------------------------------------------
(* np.array(values, dtype=np.float32) *)

Digits == {"1", "2"}

\* float(s) parses s: a non-empty run of digits (None is no string)
IsNumeric(s) == s # None /\ Len(s) >= 1 /\ \A i \in 1..Len(s) : s[i] \in Digits

DigitVal(c) == IF c = "1" THEN 1 ELSE 2

RECURSIVE NumFrom(_, _, _)
NumFrom(s, i, acc) ==
    IF i > Len(s) THEN acc ELSE NumFrom(s, i + 1, 10 * acc + DigitVal(s[i]))

\* one element: None becomes nan, a numeric string its value
ToFloat(v) ==
    IF v = None THEN [kind |-> "nan", val |-> 0]
    ELSE [kind |-> "num", val |-> NumFrom(v, 1, 0)]

\* the elements np.array refuses: strings float() cannot parse
Refused(col) == {i \in 1..Len(col) : col[i] # None /\ ~IsNumeric(col[i])}

\* np.array(col, dtype=np.float32): ValueError, or the array
NpArray(col) ==
    IF Refused(col) # {}
    THEN [error |-> "ValueError", array |-> <<>>]
    ELSE [error |-> "none", array |-> [i \in 1..Len(col) |-> ToFloat(col[i])]]

-----------------------------------------------------------------------------
(* The tables r.univar may print. *)

zone == <<"zone">>

mean == <<"mean">>

stddev == <<"stddev">>

\* the header names and the data values the tables are drawn over, by family
Palettes ==
    << [names |-> {zone, mean},      values |-> {<<"1">>, <<>>}],
       [names |-> {mean, stddev},    values |-> {<<"1">>, <<QUOTE>>}],
       [names |-> {zone, <<QUOTE>>}, values |-> {<<"1", QUOTE>>, <<"2">>}],
       [names |-> {<<>>},            values |-> {<<"1">>}] >>

\* the lines of 1..MaxFields fields over a set of field values
LinesOver(fieldset) ==
    {Join(fs, separator) : fs \in SeqsUpTo(fieldset, 1, MaxFields)}

\* a header line and up to MaxRows data lines
TablesOver(p) ==
    {<<h>> \o rows : h \in LinesOver(p.names),
                     rows \in SeqsUpTo(LinesOver(p.values), 0, MaxRows)}

\* the i-th family of tables; the last one is r.univar printing nothing
TableFamily(i) ==
    IF i <= Len(Palettes) THEN TablesOver(Palettes[i]) ELSE {<<>>}

-----------------------------------------------------------------------------
(* The calls of the hydrology notebook, in the order of its cells.  A call  *)
(* is known by the line it stands on; the r.slope.aspect call, the r.univar *)
(* call and the plot cell keep the names "slope", "univar" and "plot".      *)

\* the rasters of the base dataset nc_basic_spm_grass7 that the notebook reads
BaseRasters == {"elevation"}

\* a map name as the database resolves it: name@PERMANENT is the base raster
Resolve(name) == IF name = "elevation@PERMANENT" THEN "elevation" ELSE name

\* one call: kind is "launch" (a subprocess outside any session), "init",
\* "command" (gs.run_command, gs.read_command, gs.parse_command, gs.mapcalc),
\* "display" (a call on a GrassRenderer or an InteractiveMap) or "plot";
\* reads / vreads are the raster / vector maps it names as inputs,
\* writes / vwrites the raster / vector maps it names as outputs
Call(at, kind, name, reads, vreads, writes, vwrites) ==
    [at |-> at, kind |-> kind, name |-> name, reads |-> reads,
     vreads |-> vreads, writes |-> writes, vwrites |-> vwrites]

SessionStart ==
    << Call("L37", "launch", "grass --config path", {}, {}, {}, {}),
       Call("L46", "init", "gj.init", {}, {}, {}, {}),
       Call("L49", "command", "g.region", {"elevation"}, {}, {}, {}),
       Call("L69", "display", "GrassRenderer", {}, {}, {}, {}),
       Call("L72", "display", "d_rast", {"elevation"}, {}, {}, {}),
       Call("L73", "display", "d_legend", {"elevation"}, {}, {}, {}),
       Call("L76", "display", "show", {}, {}, {}, {}) >>

Depressions ==
    << Call("L94", "command", "r.fill.dir", {"elevation"}, {},
            {"elev_fill1", "dir1", "area1"}, {}),
       Call("L95", "command", "r.fill.dir", {"elev_fill1"}, {},
            {"elev_fill2", "dir2", "area2"}, {}),
       Call("L96", "command", "r.fill.dir", {"elev_fill2"}, {},
            {"elev_fill3", "dir3", "area3"}, {}),
       Call("L97", "command", "r.mapcalc", {"elevation", "elev_fill3"}, {},
            {"depr_bin"}, {}),
       Call("L98", "command", "r.colors", {"depr_bin"}, {}, {}, {}),
       Call("L110", "display", "InteractiveMap", {}, {}, {}, {}),
       Call("L111", "display", "add_raster", {"depr_bin"}, {}, {}, {}),
       Call("L112", "display", "add_layer_control", {}, {}, {}, {}),
       Call("L113", "display", "show", {}, {}, {}, {}) >>

Watersheds ==
    << Call("L133", "command", "r.watershed", {"elevation@PERMANENT"}, {},
            {"drainage", "flowacc", "watersheds", "streams"}, {}),
       Call("L142", "command", "r.to.vect", {"streams"}, {}, {}, {"streams"}),
       Call("L160", "display", "InteractiveMap", {}, {}, {}, {}),
       Call("L166", "command", "r.colors", {"drainage"}, {}, {}, {}),
       Call("L170", "display", "add_raster", {"elevation"}, {}, {}, {}),
       Call("L171", "display", "add_raster", {"drainage"}, {}, {}, {}),
       Call("L172", "display", "add_raster", {"flowacc"}, {}, {}, {}),
       Call("L173", "display", "add_raster", {"watersheds"}, {}, {}, {}),
       Call("L174", "display", "add_vector", {}, {"streams"}, {}, {}),
       Call("L176", "display", "add_layer_control", {}, {}, {}, {}),
       Call("L178", "display", "show", {}, {}, {}, {}) >>

WatershedArea ==
    << Call("L197", "command", "r.stats.zonal", {"watersheds", "elevation"},
            {}, {"watersheds_count"}, {}),
       Call("L200", "command", "g.region", {}, {}, {}, {}),
       Call("L206", "command", "r.mapcalc", {"watersheds_count"}, {},
            {"watershed_area"}, {}),
       Call("L223", "command", "r.colors", {"watershed_area"}, {}, {}, {}),
       Call("L225", "display", "GrassRenderer", {}, {}, {}, {}),
       Call("L226", "display", "d_rast", {"watershed_area"}, {}, {}, {}),
       Call("L227", "display", "d_legend", {"watershed_area"}, {}, {}, {}),
       Call("L236", "display", "show", {}, {}, {}, {}) >>

ZonalStatistics ==
    << Call("slope", "command", "r.slope.aspect", {"elevation"}, {},
            {"slope"}, {}),
       Call("L267", "display", "GrassRenderer", {}, {}, {}, {}),
       Call("L268", "display", "d_rast", {"slope"}, {}, {}, {}),
       Call("L269", "display", "d_legend", {"slope"}, {}, {}, {}),
       Call("L270", "display", "show", {}, {}, {}, {}),
       Call("univar", "command", "r.univar", {"elevation", "watersheds"}, {},
            {}, {}),
       Call("plot", "plot", "ax.bar", {}, {}, {}, {}) >>

WatershedsVector ==
    << Call("L337", "command", "r.to.vect", {"watersheds"}, {}, {},
            {"watersheds_vector"}),
       Call("L347", "display", "GrassRenderer", {}, {}, {}, {}),
       Call("L348", "display", "d_rast", {"elevation"}, {}, {}, {}),
       Call("L349", "display", "d_vect", {}, {"watersheds_vector"}, {}, {}),
       Call("L357", "display", "show", {}, {}, {}, {}) >>

\* the cells run top to bottom
Program ==
    SessionStart \o Depressions \o Watersheds \o WatershedArea
        \o ZonalStatistics \o WatershedsVector

Labels == {Program[i].at : i \in 1..Len(Program)}

IndexOf(label) == CHOOSE i \in 1..Len(Program) : Program[i].at = label

CallAt(label) == Program[IndexOf(label)]

\* the call that follows, or "done" after the last one
After(label) ==
    IF IndexOf(label) = Len(Program) THEN "done"
    ELSE Program[IndexOf(label) + 1].at

\* Outputs, with r.watershed's basin= output left unwritten
OutputsButBasin(c) == c.writes \ {"watersheds"}

\* the rasters a completed call has written (output=, basin=, slope=, ...,
\* or the left-hand side of a mapcalc expression)
Outputs(c) == c.writes

\* what the engine needs to run the call: an initialised session (but for the
\* launch that locates the installation and for gj.init itself), and every
\* input map present in the database
Runnable(c) ==
    /\ c.kind \in {"command", "display"} => session
    /\ \A name \in c.reads : Resolve(name) \in rasters
    /\ c.vreads \subseteq vectors

-----------------------------------------------------------------------------
(* The cells of the notebook, from the first one. *)

Init ==
    /\ pc = Program[1].at
    /\ session = FALSE
    /\ rasters = BaseRasters
    /\ vectors = {}
    /\ univar_args = Unbound
    /\ printed = <<>>
    /\ text = Unbound
    /\ reader = Unbound
    /\ columns = Unbound
    /\ watersheds = Unbound
    /\ means = Unbound
    /\ stddevs = Unbound
    /\ plot = Unbound
    /\ err = "none"
    /\ layers = <<>>
    /\ displayed = <<>>
    /\ added = <<>>
    /\ last = [op |-> "none", inst |-> "none"]

\* the calls that have an action of their own below
OwnAction == {"slope", "univar", "plot"}

\* a call that the engine refuses raises CalledModuleError and the run of the
\* cells stops there
Refuse ==
    /\ err' = "CalledModuleError"
    /\ pc' = "failed"
    /\ UNCHANGED <<session, rasters, vectors>>

\* gisbase = subprocess.check_output(["grass", "--config", "path"], ...)
Launch ==
    /\ pc \in Labels \ OwnAction
    /\ CallAt(pc).kind = "launch"
    /\ pc' = After(pc)
    /\ UNCHANGED <<session, rasters, vectors, univar_args, printed, text,
                   reader, columns, watersheds, means, stddevs, plot, err,
                   renderVars>>

\* gj.init("../../data/grassdata", "nc_basic_spm_grass7", "user1")
GjInit ==
    /\ pc \in Labels \ OwnAction
    /\ CallAt(pc).kind = "init"
    /\ session' = TRUE
    /\ pc' = After(pc)
    /\ UNCHANGED <<rasters, vectors, univar_args, printed, text, reader,
                   columns, watersheds, means, stddevs, plot, err, renderVars>>

\* gs.run_command / gs.parse_command / gs.mapcalc: the command runs to its
\* end and its outputs are in the database when the call returns
RunCommand ==
    /\ pc \in Labels \ OwnAction
    /\ CallAt(pc).kind = "command"
    /\ IF Runnable(CallAt(pc))
       THEN /\ rasters' = rasters \cup Outputs(CallAt(pc))
            /\ vectors' = vectors \cup CallAt(pc).vwrites
            /\ pc' = After(pc)
            /\ UNCHANGED <<session, err>>
       ELSE Refuse
    /\ UNCHANGED <<univar_args, printed, text, reader, columns, watersheds,
                   means, stddevs, plot, renderVars>>

\* a call on a GrassRenderer or an InteractiveMap of the notebook
DisplayCall ==
    /\ pc \in Labels \ OwnAction
    /\ CallAt(pc).kind = "display"
    /\ IF Runnable(CallAt(pc))
       THEN /\ pc' = After(pc)
            /\ UNCHANGED <<session, rasters, vectors, err>>
       ELSE Refuse
    /\ UNCHANGED <<univar_args, printed, text, reader, columns, watersheds,
                   means, stddevs, plot, renderVars>>

\* gs.run_command("r.slope.aspect", elevation="elevation", slope="slope")
RSlopeAspect ==
    /\ pc = "slope"
    /\ "elevation" \in rasters
    /\ rasters' = rasters \cup {"slope"}
    /\ pc' = After("slope")
    /\ UNCHANGED <<session, vectors, univar_args, printed, text, reader, columns, watersheds,
                   means, stddevs, plot, err, renderVars>>

\* columns = defaultdict(list); text = gs.read_command("r.univar", ...);
\* reader = csv.DictReader(text.splitlines(), delimiter=separator)
ReadCommand ==
    /\ pc = "univar"
    /\ \E i \in 1..(Len(Palettes) + 1) :
          \E table \in TableFamily(i) :
              /\ printed' = table
              /\ text' = Unlines(table)
    /\ univar_args' = [map |-> "elevation", zones |-> "watersheds",
                        separator |-> separator, flags |-> "t"]
    /\ columns' = <<>>
    /\ reader' = [lines |-> SplitLines(text'), pos |-> 1, line_num |-> 0,
                   fieldnames |-> <<>>]
    /\ pc' = "rows"
    /\ UNCHANGED <<session, rasters, vectors, watersheds, means, stddevs,
                   plot, err, renderVars>>

\* one turn of `for row in reader`, with the inner loop over row.items()
NextRow ==
    /\ pc = "rows"
    /\ LET n == DictNext(reader)
       IN  /\ reader' = n.reader
           /\ IF n.stop
              THEN /\ columns' = columns
                   /\ pc' = "zone"
              ELSE /\ columns' = AppendRow(columns, n.d)
                   /\ pc' = "rows"
    /\ UNCHANGED <<session, rasters, vectors, univar_args, printed, text, watersheds, means,
                   stddevs, plot, err, renderVars>>

\* watersheds = columns["zone"]
SelectZone ==
    /\ pc = "zone"
    /\ columns' = GetItem(columns, zone)
    /\ watersheds' = columns'[zone]
    /\ pc' = "means"
    /\ UNCHANGED <<session, rasters, vectors, univar_args, printed, text, reader, means,
                   stddevs, plot, err, renderVars>>

\* means = np.array(columns["mean"], dtype=np.float32)
ConvertMeans ==
    /\ pc = "means"
    /\ columns' = GetItem(columns, mean)
    /\ LET a == NpArray(columns'[mean])
       IN  IF a.error = "none"
           THEN /\ means' = a.array
                /\ err' = err
                /\ pc' = "stddevs"
           ELSE /\ means' = means
                /\ err' = a.error
                /\ pc' = "failed"
    /\ UNCHANGED <<session, rasters, vectors, univar_args, printed, text, reader, watersheds,
                   stddevs, plot, renderVars>>

\* stddevs = np.array(columns["stddev"], dtype=np.float32)
ConvertStddevs ==
    /\ pc = "stddevs"
    /\ columns' = GetItem(columns, stddev)
    /\ LET a == NpArray(columns'[stddev])
       IN  IF a.error = "none"
           THEN /\ stddevs' = a.array
                /\ err' = err
                /\ pc' = "plot"
           ELSE /\ stddevs' = stddevs
                /\ err' = a.error
                /\ pc' = "failed"
    /\ UNCHANGED <<session, rasters, vectors, univar_args, printed, text, reader, watersheds,
                   means, plot, renderVars>>

\* the bar plot: bar_positions = np.arange(len(watersheds)); ax.bar(...)
BarPlot ==
    /\ pc = "plot"
    /\ LET bar_positions == [i \in 1..Len(watersheds) |-> i - 1]
       IN  IF Len(means) = Len(bar_positions) \/ Len(means) = 1
              \/ Len(bar_positions) = 1
           THEN /\ plot' = [title |-> "Average Slope", xlabel |-> "Watershed",
                             ylabel |-> "Slope [degrees]", x |-> bar_positions,
                             height |-> means, xticklabels |-> watersheds]
                /\ err' = err
                /\ pc' = After("plot")
           ELSE /\ plot' = plot
                /\ err' = "ValueError"
                /\ pc' = "failed"
    /\ UNCHANGED <<session, rasters, vectors, univar_args, printed, text, reader, columns,
                   watersheds, means, stddevs, renderVars>>

Next ==
    \/ Launch
    \/ GjInit
    \/ RunCommand
    \/ DisplayCall
    \/ RSlopeAspect
    \/ ReadCommand
    \/ NextRow
    \/ SelectZone
    \/ ConvertMeans
    \/ ConvertStddevs
    \/ BarPlot

Spec == Init /\ [][Next]_vars

-----------------------------------------------------------------------------
(* grass.jupyter.GrassRenderer, as the grass_jupyter notebook describes it: *)
(* an instance draws every layer added to it into its own image, in the     *)
(* order of the calls, and show() displays that image.                      *)

Instances == {"img", "img2"}

d_rast == <<"d", "_", "rast">>

d_vect_module == <<"d", ".", "vect">>

\* img.d_rast(map="elevation"): the attribute form
AttrCalls == {[attr |-> d_rast, map |-> "elevation"]}

\* img2.run("d.vect", map="roadsmajor"): the run() form
RunCalls == {[module |-> d_vect_module, map |-> "roadsmajor"]}

\* the display module an attribute names: "_" replaced by "."
ModuleOf(attr) == [i \in 1..Len(attr) |-> IF attr[i] = "_" THEN "." ELSE attr[i]]

\* Render, with one image shared by all instances
RenderShared(images, i, layer) ==
    [j \in DOMAIN images |-> Append(images[j], layer)]

\* the module draws one more layer into the image of instance i
Render(images, i, layer) == [images EXCEPT ![i] = Append(@, layer)]

Extend(f, i, v) == [j \in DOMAIN f \cup {i} |-> IF j = i THEN v ELSE f[j]]

\* img = gj.GrassRenderer()
NewRenderer(i) ==
    /\ i \notin DOMAIN layers
    /\ layers' = Extend(layers, i, <<>>)
    /\ added' = Extend(added, i, <<>>)
    /\ displayed' = Extend(displayed, i, [shown |-> FALSE, image |-> <<>>])
    /\ last' = [op |-> "new", inst |-> i]
    /\ UNCHANGED aggVars

\* img.d_rast(map=...)
AddByAttribute(i) ==
    /\ i \in DOMAIN layers
    /\ Len(added[i]) < MaxLayers
    /\ \E c \in AttrCalls :
          LET layer == [module |-> ModuleOf(c.attr), map |-> c.map]
          IN  /\ layers' = Render(layers, i, layer)
              /\ added' = [added EXCEPT ![i] = Append(@, layer)]
    /\ last' = [op |-> "add", inst |-> i]
    /\ UNCHANGED <<displayed, aggVars>>

\* img.run("d.vect", map=...)
RunModule(i) ==
    /\ i \in DOMAIN layers
    /\ Len(added[i]) < MaxLayers
    /\ \E c \in RunCalls :
          LET layer == [module |-> c.module, map |-> c.map]
          IN  /\ layers' = Render(layers, i, layer)
              /\ added' = [added EXCEPT ![i] = Append(@, layer)]
    /\ last' = [op |-> "add", inst |-> i]
    /\ UNCHANGED <<displayed, aggVars>>

\* img.show()
Show(i) ==
    /\ i \in DOMAIN layers
    /\ displayed' = [displayed EXCEPT ![i] = [shown |-> TRUE, image |-> layers[i]]]
    /\ last' = [op |-> "show", inst |-> i]
    /\ UNCHANGED <<layers, added, aggVars>>

RenderNext ==
    \E i \in Instances :
        \/ NewRenderer(i)
        \/ AddByAttribute(i)
        \/ RunModule(i)
        \/ Show(i)

SpecRender == Init /\ [][RenderNext]_vars

\* C8: every instance's image holds exactly the layers added to that
\* instance, in the order of the calls, whatever was added to or shown by the
\* other instance, and a show() displays exactly those layers.
C8_Independent ==
    /\ \A i \in DOMAIN layers : layers[i] = added[i]
    /\ last.op = "show" => displayed[last.inst].image = added[last.inst]

C8_Witness ==
    /\ last = [op |-> "show", inst |-> "img"]
    /\ Len(added["img"]) = 2
    /\ "img2" \in DOMAIN added
    /\ added["img2"] # <<>>
    /\ added["img2"] # added["img"]
    /\ displayed["img2"].shown
    /\ displayed["img2"].image # <<>>
    /\ displayed["img2"].image # added["img2"]
    /\ displayed["img"].image = added["img"]

-----------------------------------------------------------------------------
(* The table r.univar printed, in the terms of the specification. *)

RECURSIVE SplitFrom(_, _, _)
SplitFrom(s, i, cur) ==
    IF i > Len(s) THEN <<cur>>
    ELSE IF s[i] = separator THEN <<cur>> \o SplitFrom(s, i + 1, <<>>)
    ELSE SplitFrom(s, i + 1, Append(cur, s[i]))

\* the delimiter-separated fields of a line
Split(line) == SplitFrom(line, 1, <<>>)

HeaderNames == Split(printed[1])

\* the number of data lines
N == Len(printed) - 1

DataLine(k) == printed[k + 1]

\* a header of unique names, every data line with as many fields as the header
WellFormed ==
    /\ Len(printed) >= 1
    /\ \A i, j \in 1..Len(HeaderNames) : HeaderNames[i] = HeaderNames[j] => i = j
    /\ \A k \in 1..N : Len(Split(DataLine(k))) = Len(HeaderNames)

\* every data line has as many fields as the header (names may repeat)
MatchingCounts ==
    /\ Len(printed) >= 1
    /\ \A k \in 1..N : Len(Split(DataLine(k))) = Len(HeaderNames)

NoEmptyLine == \A i \in 1..Len(printed) : printed[i] # <<>>

\* no field of any line begins with the quote character
NoLeadingQuote ==
    \A i \in 1..Len(printed) :
        \A j \in 1..Len(Split(printed[i])) :
            Split(printed[i])[j] = <<>> \/ Split(printed[i])[j][1] # QUOTE

\* the pass over the record stream has just ended: no lookup has happened yet
PassEnded == pc = "zone"

\* one entry per header name and no other, every column of length N
TableShape ==
    /\ DOMAIN columns = Range(HeaderNames)
    /\ \A name \in DOMAIN columns : Len(columns[name]) = N

\* the k-th element under the i-th header name is the i-th value of line k
Aligned(i, k) ==
    /\ HeaderNames[i] \in DOMAIN columns
    /\ k <= Len(columns[HeaderNames[i]])
    /\ columns[HeaderNames[i]][k] = Split(DataLine(k))[i]

\* the k-th elements of the columns, in header field order, joined again
Rejoined(k) ==
    Join([i \in 1..Len(HeaderNames) |-> columns[HeaderNames[i]][k]], separator)

RoundTrip(k) ==
    /\ \A i \in 1..Len(HeaderNames) :
          /\ HeaderNames[i] \in DOMAIN columns
          /\ k <= Len(columns[HeaderNames[i]])
    /\ Rejoined(k) = DataLine(k)

-----------------------------------------------------------------------------
\* C1 as stated: for every well-formed table (N >= 0 data lines) the column
\* table has exactly the header names as keys and every column has length N.
C1_AsStated == (PassEnded /\ WellFormed) => TableShape

\* C1, amended: for every well-formed table with at least one data line, no
\* empty line and no field beginning with the quote character, the column
\* table has exactly the header names as keys and every column has length N.
C1_TableShape ==
    (PassEnded /\ WellFormed /\ N >= 1 /\ NoEmptyLine /\ NoLeadingQuote)
        => TableShape

C1_Witness ==
    /\ PassEnded /\ WellFormed /\ NoEmptyLine /\ NoLeadingQuote
    /\ N = MaxRows /\ Len(HeaderNames) = 2
    /\ DataLine(1) # DataLine(2)
    /\ TableShape

\* C2 as stated: for every well-formed table the k-th element stored under the
\* i-th header name is the i-th delimiter-separated value of the k-th data line.
C2_AsStated ==
    (PassEnded /\ WellFormed)
        => \A i \in 1..Len(HeaderNames) : \A k \in 1..N : Aligned(i, k)

\* C2, amended: the same, for well-formed tables with no empty line and no
\* field beginning with the quote character.
C2_RowOrder ==
    (PassEnded /\ WellFormed /\ NoEmptyLine /\ NoLeadingQuote)
        => \A i \in 1..Len(HeaderNames) : \A k \in 1..N : Aligned(i, k)

C2_Witness ==
    /\ PassEnded /\ WellFormed /\ NoEmptyLine /\ NoLeadingQuote
    /\ N = 2 /\ Len(HeaderNames) = 2
    /\ DataLine(1) # DataLine(2)
    /\ Split(DataLine(1))[1] # Split(DataLine(1))[2]
    /\ \A i \in 1..2 : \A k \in 1..2 : Aligned(i, k)

\* C3 as stated: for every well-formed table whose values contain neither the
\* delimiter nor a line break, joining the k-th elements of the columns in
\* header order with the delimiter reproduces the k-th data line.
C3_AsStated ==
    (PassEnded /\ WellFormed) => \A k \in 1..N : RoundTrip(k)

\* C3, amended: the same, for well-formed tables with no empty line and no
\* field beginning with the quote character.
C3_RoundTrip ==
    (PassEnded /\ WellFormed /\ NoEmptyLine /\ NoLeadingQuote)
        => \A k \in 1..N : RoundTrip(k)

C3_Witness ==
    /\ PassEnded /\ WellFormed /\ NoEmptyLine /\ NoLeadingQuote
    /\ N = 2 /\ Len(HeaderNames) = 2
    /\ \E k \in 1..N : <<>> \in Range(Split(DataLine(k)))
    /\ \E k \in 1..N : Rejoined(k) = <<"1", separator, "1">>
    /\ \A k \in 1..N : RoundTrip(k)

\* C4 as stated: a table of only a header line yields a column table holding
\* every header name as a key, each mapped to an empty sequence.
C4_AsStated ==
    (PassEnded /\ Len(printed) = 1)
        => /\ DOMAIN columns = Range(HeaderNames)
           /\ \A name \in DOMAIN columns : columns[name] = <<>>

\* C4, amended: a table of only a header line yields a column table with no
\* key at all: the pass enters a name only when a data row carries a value
\* for it.
C4_HeaderOnly == (PassEnded /\ Len(printed) = 1) => DOMAIN columns = {}

C4_Witness ==
    /\ PassEnded /\ Len(printed) = 1
    /\ HeaderNames = <<zone, mean>>
    /\ DOMAIN columns = {}

-----------------------------------------------------------------------------
\* the k-th data line has another number of fields than the header
Malformed(k) == Len(Split(DataLine(k))) # Len(HeaderNames)

\* the reader has taken the k-th data line
Consumed(k) == reader.pos > k + 1

\* None stands in a column, or is a key
Padded ==
    \/ None \in DOMAIN columns
    \/ \E name \in DOMAIN columns : None \in Range(columns[name])

\* C5 as stated: once a data line whose field count differs from the header's
\* has been read, the pass has ended in a MalformedRecord error, nothing was
\* padded or truncated and no column table is left to the caller.
C5_AsStated ==
    (pc \notin {"slope", "univar"} /\ Len(printed) >= 1)
        => \A k \in 1..N :
              (Consumed(k) /\ Malformed(k))
                  => /\ err = "MalformedRecord"
                     /\ pc = "failed"
                     /\ ~Padded

\* C6 as stated: when the conversion of the 'mean' column has succeeded, every
\* element of the column was a numeric string and the array holds one number
\* for each of them.
C6_AsStated ==
    (pc \in {"stddevs", "plot", "done"})
        => /\ \A i \in 1..Len(columns[mean]) : IsNumeric(columns[mean][i])
           /\ Len(means) = Len(columns[mean])
           /\ \A i \in 1..Len(means) : means[i].kind = "num"

\* C7 as stated: the value map of the zonal r.univar call is the 'slope' raster
\* that r.slope.aspect produced, with 'watersheds' as the zones.
C7_AsStated ==
    (pc \in {"rows", "zone", "means", "stddevs", "plot"})
        => /\ univar_args.map = "slope"
           /\ univar_args.map \in rasters
           /\ univar_args.zones = "watersheds"

\* C9 as stated: once the pass has finished, no statement adds a key, removes
\* a key or changes a column.
C9_AsStated ==
    [][(pc \in {"zone", "means", "stddevs", "plot"}) => (columns' = columns)]_vars

-----------------------------------------------------------------------------
HasDuplicate ==
    \E i, j \in 1..Len(HeaderNames) : i < j /\ HeaderNames[i] = HeaderNames[j]

\* the last header position that carries a name
LastCarrying(name) ==
    CHOOSE i \in 1..Len(HeaderNames) :
        /\ HeaderNames[i] = name
        /\ \A j \in 1..Len(HeaderNames) : HeaderNames[j] = name => j <= i

\* one entry per distinct name, of one element per data line: the value at
\* the last position carrying the name
LastWins ==
    /\ err = "none"
    /\ DOMAIN columns = Range(HeaderNames)
    /\ \A name \in DOMAIN columns :
          /\ Len(columns[name]) = N
          /\ \A k \in 1..N :
                columns[name][k] = Split(DataLine(k))[LastCarrying(name)]

\* C10 as stated: with a name at two or more header positions and every data
\* line as long as the header, no error is raised and the table holds one
\* entry per name, of N elements, each the value at the name's last position.
C10_AsStated == (PassEnded /\ MatchingCounts /\ HasDuplicate) => LastWins

\* C10, amended: the same, for tables with at least one data line and no
\* field beginning with the quote character.
C10_LastWins ==
    (PassEnded /\ MatchingCounts /\ HasDuplicate /\ N >= 1 /\ NoLeadingQuote)
        => LastWins

C10_Witness ==
    /\ PassEnded /\ MatchingCounts /\ NoLeadingQuote
    /\ HeaderNames = <<zone, zone>>
    /\ N = 2
    /\ \A k \in 1..N : Split(DataLine(k))[1] # Split(DataLine(k))[2]
    /\ DataLine(1) # DataLine(2)
    /\ LastWins

-----------------------------------------------------------------------------
\* the rasters / vectors written by the calls that stand before the i-th
WrittenBefore(i) == UNION {Program[j].writes : j \in 1..(i - 1)}

VWrittenBefore(i) == UNION {Program[j].vwrites : j \in 1..(i - 1)}

\* the i-th call is a command or a display call and finds the session started
SessionFirst(i) == Program[i].kind \in {"command", "display"} => session

\* every raster the i-th call reads is the base raster or was written by an
\* earlier call and is in the database; likewise every vector it reads
ReadsProduced(i) ==
    /\ \A name \in Program[i].reads :
          \/ Resolve(name) \in BaseRasters
          \/ name \in WrittenBefore(i) /\ name \in rasters
    /\ \A name \in Program[i].vreads :
          name \in VWrittenBefore(i) /\ name \in vectors

\* C11: with the cells run top to bottom, whenever a command or a display
\* call is about to run the session has been initialised and every map the
\* call reads is the base raster 'elevation' or was written by a call that
\* completed earlier; no call is refused for a map that is not there yet.
C11_ReadsProduced ==
    /\ err # "CalledModuleError"
    /\ \A i \in 1..Len(Program) :
          pc = Program[i].at => SessionFirst(i) /\ ReadsProduced(i)

\* the last cell has run: every map the claim names was written on the way
C11_Witness ==
    /\ pc = "done"
    /\ err = "none"
    /\ session
    /\ {"elev_fill1", "elev_fill2", "elev_fill3", "depr_bin", "drainage",
        "flowacc", "watersheds", "streams", "watersheds_count",
        "watershed_area", "slope"} \subseteq rasters
    /\ {"streams", "watersheds_vector"} \subseteq vectors

====
